---- MODULE Spec2Model ----
(***************************************************************************)
(* Model of the two utilities of the repository:                           *)
(*   download_wheels.py  - the parallel downloader (specification Spec,    *)
(*                         and LiveSpec with fair scheduling)              *)
(*   create_mirror.py    - the mirror builder (specification MirrorSpec)   *)
(* Text (requirement lines, file names, platform tags) is a sequence of    *)
(* one-character strings, so that lower(), replace(), startswith(), `in`   *)
(* and re.split() are computed as Python computes them.  The text of a     *)
(* failed command's stderr is a sequence of words.                         *)
(***************************************************************************)
EXTENDS Integers, Sequences, FiniteSets, TLC

VARIABLES
    \* ---- download_wheels.py
    requirements_txt,   \* the requirements file: whether it exists, its lines
    build_dependencies, \* how the pip install of BUILD_DEPENDENCIES ended
    failures,           \* history: the tasks that returned failure, in time order
    output_directory_exists, \* whether "wheelhouse" exists
    output_directory,   \* the files of "wheelhouse", a set of names
    max_workers,        \* the pool's size (MAX_WORKERS)
    pc_main,            \* position of the main thread
    requirements,       \* download_packages_multithreaded: requirements
    next_result,        \* index of the next result the for loop waits for
    task,               \* per task: status, platform index, result
    outcome,            \* per task, per platform: what happened to the pair
    invocations,        \* per task, per platform: pip download invocations
    error_output,       \* per task, per platform: stderr of the failed command
    initial_files,      \* the files of the directory when tasks are dispatched
    \* ---- create_mirror.py
    source_dir_exists,  \* whether SOURCE_DIR is a directory
    source_dir,         \* the files of SOURCE_DIR, a set of names
    simple_dir_exists,  \* whether MIRROR_ROOT/simple exists
    mirror,             \* simple/<name>/: per package directory, its copied files
    index_html,         \* simple/<name>/index.html: what was written to it
    pc_mirror,          \* position of create_simple_repository
    packages,           \* the packages dict, in insertion order
    pkg_i,              \* position of the loop over packages.items()
    file_i,             \* position of the loop over sorted(files)
    runs,               \* how many times the script was started
    source_changed,     \* whether SOURCE_DIR changed since the first run
    first_run,          \* what the first completed run left behind
    stdout              \* what the current run of create_mirror.py has printed

dl_vars == <<requirements_txt, build_dependencies, failures, output_directory_exists, output_directory, max_workers, pc_main,
             requirements, next_result, task, outcome, invocations,
             error_output, initial_files>>
mirror_vars == <<source_dir_exists, source_dir, simple_dir_exists, mirror,
                 index_html, pc_mirror, packages, pkg_i, file_i, runs,
                 source_changed, first_run, stdout>>
vars == <<dl_vars, mirror_vars>>

----------------------------------------------------------------------------
\* Bounds of the model.

\* How many of TARGET_PLATFORMS, from the front, the model iterates over.
NumPlatforms == 2
\* How many times the mirror builder is run.
MaxRuns == 2

----------------------------------------------------------------------------
\* Python's str operations on sequences of characters.

UpperCase == <<"A","B","C","D","E","F","G","H","I","J","K","L","M","N","O","P","Q","R","S","T","U","V","W","X","Y","Z">>
LowerCase == <<"a","b","c","d","e","f","g","h","i","j","k","l","m","n","o","p","q","r","s","t","u","v","w","x","y","z">>

LowerChar(c) ==
    IF \E k \in 1..26 : UpperCase[k] = c
    THEN LowerCase[CHOOSE k \in 1..26 : UpperCase[k] = c]
    ELSE c

\* s.lower()
lower(s) == [k \in 1..Len(s) |-> LowerChar(s[k])]

\* s.replace(a, b) for one-character a and b
replace(s, a, b) == [k \in 1..Len(s) |-> IF s[k] = a THEN b ELSE s[k]]

\* s.startswith(p)
startswith(s, p) == Len(p) <= Len(s) /\ SubSeq(s, 1, Len(p)) = p

\* s.endswith(p)
endswith(s, p) == Len(p) <= Len(s) /\ SubSeq(s, Len(s) - Len(p) + 1, Len(s)) = p

\* t in s
contains(s, t) == \E k \in 0..(Len(s) - Len(t)) : SubSeq(s, k + 1, k + Len(t)) = t

\* re.split(r'[=<>~!]', s)[0]: the text before the first of = < > ~ !
VersionOperators == {"=", "<", ">", "~", "!"}
split_operators_head(s) ==
    IF \E k \in 1..Len(s) : s[k] \in VersionOperators
    THEN LET k == CHOOSE j \in 1..Len(s) :
                    /\ s[j] \in VersionOperators
                    /\ \A m \in 1..(j - 1) : s[m] \notin VersionOperators
         IN SubSeq(s, 1, k - 1)
    ELSE s

----------------------------------------------------------------------------
\* download_wheels.py: configuration.

\* Number of parallel downloads.
MAX_WORKERS == 10

\* The pool sizes tried: the configured one, which no list of the model
\* exhausts, and a pool of one worker, which makes tasks wait in the queue.
WorkerCounts == {1, MAX_WORKERS}

NoFile == [exists |-> FALSE, lines |-> <<>>]
None == <<>>

TARGET_PLATFORMS_ALL == <<
    [name |-> "Windows (64-bit)",
     platform_tag |-> <<"w","i","n","_","a","m","d","6","4">>],
    [name |-> "Windows (32-bit)",
     platform_tag |-> <<"w","i","n","3","2">>],
    [name |-> "Linux (64-bit, x86_64)",
     platform_tag |-> <<"m","a","n","y","l","i","n","u","x","2","0","1","4","_","x","8","6","_","6","4">>],
    [name |-> "Linux (32-bit, i686)",
     platform_tag |-> <<"m","a","n","y","l","i","n","u","x","2","0","1","4","_","i","6","8","6">>],
    [name |-> "Linux (ARM 64-bit, aarch64)",
     platform_tag |-> <<"m","a","n","y","l","i","n","u","x","2","0","1","4","_","a","a","r","c","h","6","4">>] >>

Min(a, b) == IF a <= b THEN a ELSE b

\* The platforms the model iterates over: a prefix of the configured list.
TARGET_PLATFORMS == SubSeq(TARGET_PLATFORMS_ALL, 1, Min(NumPlatforms, Len(TARGET_PLATFORMS_ALL)))

P == Len(TARGET_PLATFORMS)

\* Lines a requirements file is made of.
\*   "Pkg_A==1\n"  "pkg\n"  "#c\n"
LineA == <<"P","k","g","_","A","=","=","1","\n">>
LineB == <<"p","k","g","\n">>
LineComment == <<"#","c","\n">>
RequirementLines == {LineA, LineB, LineComment}

\* Files the package manager may write, or that are in the directory before.
\*   pkg-1-cp312-win_amd64.whl    pkg-1-cp312-win32.whl
\*   Pkg_A-1-cp312-win_amd64.whl  pkg-a-1-py3-none-any.whl
\*   PKG-A-1-cp312-WIN32.whl
WheelPkgWin64 == <<"p","k","g","-","1","-","c","p","3","1","2","-","w","i","n","_","a","m","d","6","4",".","w","h","l">>
WheelPkgWin32 == <<"p","k","g","-","1","-","c","p","3","1","2","-","w","i","n","3","2",".","w","h","l">>
WheelPkgAWin64 == <<"P","k","g","_","A","-","1","-","c","p","3","1","2","-","w","i","n","_","a","m","d","6","4",".","w","h","l">>
WheelPkgAAny == <<"p","k","g","-","a","-","1","-","p","y","3","-","n","o","n","e","-","a","n","y",".","w","h","l">>
WheelPkgAWin32 == <<"P","K","G","-","A","-","1","-","c","p","3","1","2","-","W","I","N","3","2",".","w","h","l">>
WheelUniverse == {WheelPkgWin64, WheelPkgWin32, WheelPkgAWin64, WheelPkgAAny, WheelPkgAWin32}

\* What the directory may hold before the run.
InitialDirectories == {{}, {WheelPkgAAny}, {WheelPkgAWin32}, {WheelPkgWin64, WheelPkgWin32}}

\* stderr of a failed command, in words ("\n" is a line break).
Signature == <<"Could","not","find","a","version","that","satisfies","the","requirement">>
ErrNoVersion == <<"ERROR:","Could","not","find","a","version","that","satisfies","the","requirement","pkg","\n">>
ErrTimeout == <<"\n","ERROR:","Connection","timed","out","\n">>
ErrorTexts == {ErrNoVersion, ErrTimeout}

Whitespace == {" ", "\n", "\t"}
RECURSIVE lstrip(_)
lstrip(s) == IF s # <<>> /\ Head(s) \in Whitespace THEN lstrip(Tail(s)) ELSE s
RECURSIVE rstrip(_)
rstrip(s) == IF s # <<>> /\ s[Len(s)] \in Whitespace THEN rstrip(SubSeq(s, 1, Len(s) - 1)) ELSE s
\* s.strip()
strip(s) == rstrip(lstrip(s))

RECURSIVE SelectLines(_)
\* [line.strip() for line in f if line.strip() and not line.startswith('#')]
SelectLines(lines) ==
    IF lines = <<>> THEN <<>>
    ELSE IF strip(Head(lines)) # <<>> /\ ~startswith(Head(lines), <<"#">>)
         THEN <<strip(Head(lines))>> \o SelectLines(Tail(lines))
         ELSE SelectLines(Tail(lines))

\* re.split(r'[=<>~!]', req)[0].lower().replace('_', '-')
package_name_of(req) == replace(lower(split_operators_head(req)), "_", "-")

\* The test without lower() on the file name.
is_downloaded_case_sensitive(files, req, platform_tag) ==
    \E f \in files :
        /\ startswith(f, package_name_of(req))
        /\ contains(f, platform_tag)

\* The test without the platform tag.
is_downloaded_any_platform(files, req, platform_tag) ==
    \E f \in files : startswith(lower(f), package_name_of(req))

\* f.lower().startswith(package_name) and platform_tag in f.lower(), computed
\* once for every file, requirement and platform tag of the model.
FileMatches ==
    [f \in WheelUniverse, req \in {strip(l) : l \in RequirementLines},
     platform_tag \in {TARGET_PLATFORMS[k].platform_tag : k \in 1..P} |->
        /\ startswith(lower(f), package_name_of(req))
        /\ contains(lower(f), platform_tag)]

\* any(f.lower().startswith(package_name) and platform_tag in f.lower()
\*     for f in downloaded_files)
is_downloaded(files, req, platform_tag) ==
    \E f \in files : FileMatches[f, req, platform_tag]

\* The signature looked for at the start of the text only.
is_no_binary_error_at_start(error_text) == startswith(error_text, Signature)

\* "Could not find a version that satisfies the requirement" in error_output
is_no_binary_error(error_text) == contains(error_text, Signature)

\* What `pip download --only-binary=:all: --platform tag` may leave in the
\* directory when it succeeds: wheels built for that platform or for any.
NoneAny == <<"n","o","n","e","-","a","n","y">>
CompatibleTable ==
    [platform_tag \in {TARGET_PLATFORMS[k].platform_tag : k \in 1..P} |->
        {f \in WheelUniverse : contains(lower(f), platform_tag) \/ contains(f, NoneAny)}]
CompatibleWheels(platform_tag) == CompatibleTable[platform_tag]

----------------------------------------------------------------------------
\* download_wheels.py: state and steps.

N == Len(requirements)
Tasks == 1..N
Platforms == 1..P

Running(i) == task[i].status \in {"checking", "downloading"}

\* The requirements files tried: absent, empty, one line, two lines.  (A pool
\* of one worker or of MAX_WORKERS over two tasks shows every pattern of
\* queued, running, finished and cancelled tasks.)
RequirementFiles ==
    {NoFile} \cup
    {[exists |-> TRUE, lines |-> l] :
        l \in {<<>>} \cup {<<a>> : a \in RequirementLines}
                    \cup {<<a, b>> : a, b \in RequirementLines}}

DownloaderInit ==
    /\ requirements_txt \in RequirementFiles
    /\ build_dependencies = "none"
    /\ failures = <<>>
    /\ output_directory_exists \in BOOLEAN
    /\ output_directory \in IF output_directory_exists THEN InitialDirectories ELSE {{}}
    /\ max_workers \in WorkerCounts
    /\ pc_main = "install"
    /\ requirements = <<>>
    /\ next_result = 1
    /\ task = <<>>
    /\ outcome = <<>>
    /\ invocations = <<>>
    /\ error_output = <<>>
    /\ initial_files = {}

\* The ways subprocess.run of the pip install command ends.
InstallResults == {"ok", "CalledProcessError", "FileNotFoundError"}

\* __main__ calling download_packages_multithreaded() whatever
\* install_build_dependencies() returned.
install_build_dependencies_unchecked ==
    /\ pc_main = "install"
    /\ \E r \in InstallResults :
          /\ build_dependencies' = r
          /\ pc_main' = "download"
    /\ UNCHANGED <<requirements_txt, failures, output_directory_exists, output_directory, max_workers, requirements,
                   next_result, task, outcome, invocations,
                   error_output, initial_files>>

\* install_build_dependencies() and the test of its result in __main__.
install_build_dependencies ==
    /\ pc_main = "install"
    /\ \E r \in InstallResults :
          /\ build_dependencies' = r
          /\ pc_main' = IF r = "ok" THEN "download" ELSE "aborted"
    /\ UNCHANGED <<requirements_txt, failures, output_directory_exists, output_directory, max_workers, requirements,
                   next_result, task, outcome, invocations,
                   error_output, initial_files>>

\* download_packages_multithreaded up to executor.map: the directory is made,
\* the file is read, one task per requirement is queued.
submit_tasks ==
    /\ pc_main = "download"
    /\ output_directory_exists' = TRUE
    /\ UNCHANGED output_directory
    /\ IF ~requirements_txt.exists
       THEN /\ pc_main' = "aborted"
            /\ UNCHANGED <<requirements, task, outcome, invocations,
                           error_output, initial_files>>
       ELSE LET reqs == SelectLines(requirements_txt.lines) IN
            /\ requirements' = reqs
            /\ task' = [i \in 1..Len(reqs) |->
                          [status |-> "queued", plat |-> 1, result |-> None]]
            /\ outcome' = [i \in 1..Len(reqs) |-> [p \in Platforms |-> "none"]]
            /\ invocations' = [i \in 1..Len(reqs) |-> [p \in Platforms |-> 0]]
            /\ error_output' = [i \in 1..Len(reqs) |-> [p \in Platforms |-> None]]
            /\ initial_files' = output_directory
            /\ pc_main' = "collect"
    /\ UNCHANGED <<requirements_txt, build_dependencies, failures, max_workers, next_result>>

\* A pool that starts a thread for every queued work item.
worker_start_unbounded(i) ==
    /\ task[i].status = "queued"
    /\ \A j \in 1..(i - 1) : task[j].status # "queued"
    /\ task' = [task EXCEPT ![i].status = "checking"]
    /\ UNCHANGED <<requirements_txt, build_dependencies, failures, output_directory_exists, output_directory, max_workers, pc_main,
                   requirements, next_result, outcome, invocations, error_output, initial_files>>

\* A worker thread of the pool takes the oldest queued work item.
worker_start(i) ==
    /\ task[i].status = "queued"
    /\ \A j \in 1..(i - 1) : task[j].status # "queued"
    /\ Cardinality({j \in Tasks : Running(j)}) < max_workers
    /\ task' = [task EXCEPT ![i].status = "checking"]
    /\ UNCHANGED <<requirements_txt, build_dependencies, failures, output_directory_exists, output_directory, max_workers, pc_main,
                   requirements, next_result, outcome, invocations, error_output, initial_files>>

\* The task after platform p is dealt with: the next platform, or
\* `return True, None` after the last one.
NextPlatform(t) ==
    IF t.plat = P
    THEN [t EXCEPT !.plat = P + 1, !.status = "done", !.result = <<TRUE, None>>]
    ELSE [t EXCEPT !.plat = t.plat + 1, !.status = "checking"]

\* process_single_requirement, one iteration from the test of the listing to
\* subprocess.run: the pair is skipped or the download command is started.
check_listing(i, downloaded_files) ==
    /\ task[i].status = "checking"
    /\ LET p == task[i].plat
           tag == TARGET_PLATFORMS[p].platform_tag
       IN IF is_downloaded(downloaded_files, requirements[i], tag)
          THEN /\ outcome' = [outcome EXCEPT ![i][p] = "skipped"]
               /\ task' = [task EXCEPT ![i] = NextPlatform(task[i])]
               /\ UNCHANGED invocations
          ELSE /\ outcome' = [outcome EXCEPT ![i][p] = "invoked"]
               /\ invocations' = [invocations EXCEPT ![i][p] = @ + 1]
               /\ task' = [task EXCEPT ![i].status = "downloading"]
    /\ UNCHANGED <<requirements_txt, build_dependencies, failures, output_directory_exists, output_directory,
                   max_workers, pc_main, requirements, next_result, error_output,
                   initial_files>>

\* The iteration with a listing taken once, when the tasks were dispatched.
check_platform_snapshot(i) == check_listing(i, initial_files)

\* The iteration held back while another task downloads the same package for
\* the same platform.
check_platform_guarded(i) ==
    /\ \A j \in Tasks \ {i} :
          ~ /\ task[j].status = "downloading"
            /\ task[j].plat = task[i].plat
            /\ package_name_of(requirements[j]) = package_name_of(requirements[i])
    /\ check_listing(i, output_directory)

\* process_single_requirement, one iteration up to subprocess.run:
\* downloaded_files = os.listdir(output_directory), then the test and the command.
check_platform(i) == check_listing(i, output_directory)

\* subprocess.run returns normally: the command has written its wheels.
download_succeeds(i) ==
    /\ task[i].status = "downloading"
    /\ LET p == task[i].plat
           tag == TARGET_PLATFORMS[p].platform_tag
       IN /\ \E written \in CompatibleWheels(tag) :
                output_directory' = output_directory \cup {written}
          /\ outcome' = [outcome EXCEPT ![i][p] = "ok"]
          /\ task' = [task EXCEPT ![i] = NextPlatform(task[i])]
    /\ UNCHANGED <<requirements_txt, build_dependencies, failures, output_directory_exists, max_workers, pc_main, requirements,
                   next_result, invocations, error_output, initial_files>>

\* The task trying the same platform again after the tolerated error.
AfterError_retry(t, req, stderr) ==
    IF is_no_binary_error(strip(stderr))
    THEN [t EXCEPT !.status = "checking"]
    ELSE [t EXCEPT !.status = "done",
                   !.result = <<FALSE, <<req, TARGET_PLATFORMS[t.plat].name, strip(stderr)>>>>]

\* The task going on to the next platform after any error.
AfterError_continue(t, req, stderr) == NextPlatform(t)

\* The task after CalledProcessError with this stderr on platform p.
AfterError(t, req, stderr) ==
    LET err == strip(stderr) IN
    IF is_no_binary_error(err)
    THEN NextPlatform(t)
    ELSE [t EXCEPT !.status = "done",
                   !.result = <<FALSE, <<req, TARGET_PLATFORMS[t.plat].name, err>>>>]

\* subprocess.run raises CalledProcessError: a warning, or the task fails.
download_fails(i) ==
    /\ task[i].status = "downloading"
    /\ \E stderr \in ErrorTexts :
          LET p == task[i].plat IN
          /\ outcome' = [outcome EXCEPT ![i][p] =
                            IF is_no_binary_error(strip(stderr)) THEN "warned" ELSE "fatal"]
          /\ error_output' = [error_output EXCEPT ![i][p] = strip(stderr)]
          /\ task' = [task EXCEPT ![i] = AfterError(task[i], requirements[i], stderr)]
          /\ failures' = IF task'[i].status = "done" /\ ~task'[i].result[1]
                          THEN Append(failures, i)
                          ELSE failures
    /\ UNCHANGED <<requirements_txt, build_dependencies, output_directory_exists, output_directory,
                   max_workers, pc_main, requirements, next_result, invocations,
                   initial_files>>

\* The loop taking the results as they complete: the first failure in time is
\* reported at once.
collect_result_as_completed ==
    /\ pc_main = "collect"
    /\ next_result <= N
    /\ IF failures # <<>>
       THEN /\ pc_main' = "fatal"
            /\ next_result' = failures[1]
       ELSE /\ task[next_result].status = "done"
            /\ next_result' = next_result + 1
            /\ UNCHANGED pc_main
    /\ UNCHANGED <<requirements_txt, build_dependencies, failures, output_directory_exists, output_directory, max_workers, requirements,
                   task, outcome, invocations, error_output, initial_files>>

\* for success, error_info in results: the next result, in submission order.
collect_result ==
    /\ pc_main = "collect"
    /\ next_result <= N
    /\ task[next_result].status = "done"
    /\ IF task[next_result].result[1]
       THEN /\ next_result' = next_result + 1
            /\ UNCHANGED pc_main
       ELSE /\ pc_main' = "fatal"
            /\ UNCHANGED next_result
    /\ UNCHANGED <<requirements_txt, build_dependencies, failures, output_directory_exists, output_directory, max_workers, requirements,
                   task, outcome, invocations, error_output, initial_files>>

\* The loop ending one result early.
all_processed_early ==
    /\ pc_main = "collect"
    /\ next_result >= N
    /\ pc_main' = "success"
    /\ UNCHANGED <<requirements_txt, build_dependencies, failures, output_directory_exists, output_directory, max_workers, requirements,
                   next_result, task, outcome, invocations,
                   error_output, initial_files>>

\* The loop ends with every result collected: the pool is shut down (no task is
\* left) and the final message is printed.
all_processed ==
    /\ pc_main = "collect"
    /\ next_result > N
    /\ pc_main' = "success"
    /\ UNCHANGED <<requirements_txt, build_dependencies, failures, output_directory_exists, output_directory, max_workers, requirements,
                   next_result, task, outcome, invocations,
                   error_output, initial_files>>

\* A shutdown that cancels nothing (cancel_futures=False).
CancelFutures_none(t) == t

\* The work items executor.shutdown(cancel_futures=True) leaves in each state.
CancelFutures(t) == IF t.status = "queued" THEN [t EXCEPT !.status = "cancelled"] ELSE t

\* executor.shutdown(wait=False, cancel_futures=True) after the fatal report.
shutdown_pool ==
    /\ pc_main = "fatal"
    /\ task' = [i \in Tasks |-> CancelFutures(task[i])]
    /\ pc_main' = "joining"
    /\ UNCHANGED <<requirements_txt, build_dependencies, failures, output_directory_exists, output_directory, max_workers, requirements,
                   next_result, outcome, invocations, error_output, initial_files>>

\* return inside the with block: __exit__ waits for the running tasks.
return_after_fatal ==
    /\ pc_main = "joining"
    /\ \A i \in Tasks : ~Running(i)
    /\ pc_main' = "halted"
    /\ UNCHANGED <<requirements_txt, build_dependencies, failures, output_directory_exists, output_directory, max_workers, requirements,
                   next_result, task, outcome, invocations,
                   error_output, initial_files>>

\* The mirror builder is not run.
MirrorIdle ==
    /\ source_dir_exists = FALSE
    /\ source_dir = {}
    /\ simple_dir_exists = FALSE
    /\ mirror = <<>>
    /\ index_html = <<>>
    /\ pc_mirror = "idle"
    /\ packages = <<>>
    /\ pkg_i = 1
    /\ file_i = 1
    /\ runs = 0
    /\ source_changed = FALSE
    /\ first_run = None
    /\ stdout = <<>>

Init == DownloaderInit /\ MirrorIdle

Next ==
    \/ install_build_dependencies /\ UNCHANGED mirror_vars
    \/ submit_tasks /\ UNCHANGED mirror_vars
    \/ \E i \in Tasks : worker_start(i) /\ UNCHANGED mirror_vars
    \/ \E i \in Tasks : check_platform(i) /\ UNCHANGED mirror_vars
    \/ \E i \in Tasks : download_succeeds(i) /\ UNCHANGED mirror_vars
    \/ \E i \in Tasks : download_fails(i) /\ UNCHANGED mirror_vars
    \/ collect_result /\ UNCHANGED mirror_vars
    \/ all_processed /\ UNCHANGED mirror_vars
    \/ shutdown_pool /\ UNCHANGED mirror_vars
    \/ return_after_fatal /\ UNCHANGED mirror_vars

Spec == Init /\ [][Next]_vars

\* The steps of the main thread, of the pool's worker threads, and the returns
\* of the download commands.
MainThread ==
    /\ \/ install_build_dependencies
       \/ submit_tasks
       \/ collect_result
       \/ all_processed
       \/ shutdown_pool
       \/ return_after_fatal
    /\ UNCHANGED mirror_vars
WorkerThreads ==
    /\ \E i \in Tasks : worker_start(i) \/ check_platform(i)
    /\ UNCHANGED mirror_vars
CommandReturns ==
    /\ \E i \in Tasks : download_succeeds(i) \/ download_fails(i)
    /\ UNCHANGED mirror_vars

\* The downloader with threads that are scheduled and download commands that
\* return.
LiveSpec ==
    /\ Spec
    /\ WF_vars(MainThread)
    /\ WF_vars(WorkerThreads)
    /\ WF_vars(CommandReturns)

----------------------------------------------------------------------------
\* create_mirror.py.

\* Files SOURCE_DIR may hold.
\*   pkgA-1.0-py3-none-any.whl   pkg_a-1.0.tar.gz
\*   pkg_A-1.0-py3-none-any.whl  notes.txt
SrcPkgAWheel == <<"p","k","g","A","-","1",".","0","-","p","y","3","-","n","o","n","e","-","a","n","y",".","w","h","l">>
SrcPkgUaSdist == <<"p","k","g","_","a","-","1",".","0",".","t","a","r",".","g","z">>
SrcPkgUAWheel == <<"p","k","g","_","A","-","1",".","0","-","p","y","3","-","n","o","n","e","-","a","n","y",".","w","h","l">>
SrcNotes == <<"n","o","t","e","s",".","t","x","t">>
SourceFiles == {SrcPkgAWheel, SrcPkgUaSdist, SrcPkgUAWheel, SrcNotes}

\* The characters of file names in code point order.
CodePoints == <<" ","!","#","$","%","&","'","(",")","*","+",",","-",".","/","0","1","2","3","4","5","6","7","8","9",":",";","<","=",">","?","@","A","B","C","D","E","F","G","H","I","J","K","L","M","N","O","P","Q","R","S","T","U","V","W","X","Y","Z","[","]","^","_","a","b","c","d","e","f","g","h","i","j","k","l","m","n","o","p","q","r","s","t","u","v","w","x","y","z","{","|","}","~">>
ord(c) == CHOOSE k \in 1..Len(CodePoints) : CodePoints[k] = c

\* s <= t as Python compares str: by code point, a prefix first.
RECURSIVE str_le(_, _)
str_le(s, t) ==
    IF s = <<>> THEN TRUE
    ELSE IF t = <<>> THEN FALSE
    ELSE IF Head(s) = Head(t) THEN str_le(Tail(s), Tail(t))
    ELSE ord(Head(s)) < ord(Head(t))

RECURSIVE insert_sorted(_, _)
insert_sorted(x, s) ==
    IF s = <<>> THEN <<x>>
    ELSE IF str_le(Head(s), x) THEN <<Head(s)>> \o insert_sorted(x, Tail(s))
    ELSE <<x>> \o s

\* The files in the order the list holds them.
unsorted(files) == files

RECURSIVE sorted(_)
\* sorted(files)
sorted(files) ==
    IF files = <<>> THEN <<>> ELSE insert_sorted(Head(files), sorted(Tail(files)))

Digits == {"0","1","2","3","4","5","6","7","8","9"}

\* re.split(r'-(?=\d)', filename, 1)[0]: the text before the first hyphen that
\* a digit follows.
split_version_head(filename) ==
    LET cuts == {k \in 1..(Len(filename) - 1) :
                    filename[k] = "-" /\ filename[k + 1] \in Digits}
    IN IF cuts = {} THEN filename
       ELSE SubSeq(filename, 1, (CHOOSE k \in cuts : \A m \in cuts : k <= m) - 1)

\* A normalization that drops the underscores.
mirror_package_name_dropping(filename) ==
    SelectSeq(lower(split_version_head(filename)), LAMBDA c : c # "_")

\* re.split(r'-(?=\d)', filename, 1)[0].lower().replace('_', '-')
mirror_package_name(filename) == replace(lower(split_version_head(filename)), "_", "-")

\* filename.endswith('.whl')
is_archive_whl_only(filename) == endswith(filename, <<".","w","h","l">>)

\* filename.endswith(('.whl', '.tar.gz'))
is_archive(filename) ==
    \/ endswith(filename, <<".","w","h","l">>)
    \/ endswith(filename, <<".","t","a","r",".","g","z">>)

\* packages[package_name].append(filename) on a defaultdict(list)
dict_append(dict, package_name, filename) ==
    IF \E k \in 1..Len(dict) : dict[k].name = package_name
    THEN [k \in 1..Len(dict) |->
            IF dict[k].name = package_name
            THEN [dict[k] EXCEPT !.files = Append(@, filename)]
            ELSE dict[k]]
    ELSE Append(dict, [name |-> package_name, files |-> <<filename>>])

RECURSIVE group_files(_, _)
\* The loop over os.listdir(SOURCE_DIR) that fills packages.
group_files(listing, dict) ==
    IF listing = <<>> THEN dict
    ELSE group_files(Tail(listing),
                     IF is_archive(Head(listing))
                     THEN dict_append(dict, mirror_package_name(Head(listing)), Head(listing))
                     ELSE dict)

\* The orders os.listdir may return the files of a directory in.
Listings(dir) ==
    {l \in [1..Cardinality(dir) -> dir] :
        \A a, b \in 1..Cardinality(dir) : a # b => l[a] # l[b]}

\* What index.html holds: the texts written, each with its arguments.
Doctype == <<"<!DOCTYPE html>\n">>
HeadLine(package_name) == <<"<html>\n<head><title>Links for {}</title></head>\n", package_name>>
BodyLine(package_name) == <<"<body>\n<h1>Links for {}</h1>\n", package_name>>
LinkLine(filename) == <<"  <a href=\"{}\">{}</a><br />\n", filename, filename>>
EndLine == <<"</body>\n</html>\n">>

\* What the script prints: the texts, each with its arguments.
SOURCE_DIR == "wheelhouse"
MIRROR_ROOT == "mirror"
SourceNotFound == <<"Error: Source directory '{}' not found.", SOURCE_DIR>>
CreatingMirror == <<"Creating mirror structure in: {}", MIRROR_ROOT, "simple">>
CreatedIndex(package_name, count) ==
    <<"- Created index for {} with {} file(s).", package_name, count>>
MirrorCreated == <<"\nMirror structure created successfully.">>
ServeMirror == <<"You can now serve the '{}' directory with a web server.", MIRROR_ROOT>>

\* f with x mapped to v, x added to its domain when new.
Put(f, x, v) == [y \in DOMAIN f \cup {x} |-> IF y = x THEN v ELSE f[y]]

\* The downloader is not run.
DownloaderIdle ==
    /\ requirements_txt = NoFile
    /\ build_dependencies = "none"
    /\ failures = <<>>
    /\ output_directory_exists = FALSE
    /\ output_directory = {}
    /\ max_workers = 1
    /\ pc_main = "idle"
    /\ requirements = <<>>
    /\ next_result = 1
    /\ task = <<>>
    /\ outcome = <<>>
    /\ invocations = <<>>
    /\ error_output = <<>>
    /\ initial_files = {}

MirrorInit ==
    /\ DownloaderIdle
    /\ source_dir_exists \in BOOLEAN
    /\ source_dir \in IF source_dir_exists THEN SUBSET SourceFiles ELSE {{}}
    /\ simple_dir_exists = FALSE
    /\ mirror = <<>>
    /\ index_html = <<>>
    /\ pc_mirror = "idle"
    /\ packages = <<>>
    /\ pkg_i = 1
    /\ file_i = 1
    /\ runs = 0
    /\ source_changed = FALSE
    /\ first_run = None
    /\ stdout = <<>>

\* The function making simple/ before it tests the source directory.
list_source_makedirs_first ==
    /\ pc_mirror = "idle"
    /\ runs < MaxRuns
    /\ runs' = runs + 1
    /\ simple_dir_exists' = TRUE
    /\ IF ~source_dir_exists
       THEN /\ stdout' = <<SourceNotFound>>
            /\ pc_mirror' = "done"
            /\ UNCHANGED packages
       ELSE /\ stdout' = <<CreatingMirror>>
            /\ \E listing \in Listings(source_dir) :
                  packages' = group_files(listing, <<>>)
            /\ pc_mirror' = "packages"
    /\ pkg_i' = 1
    /\ file_i' = 1
    /\ UNCHANGED <<source_dir_exists, source_dir, mirror, index_html,
                   source_changed, first_run>>

\* create_simple_repository up to the loop over the packages: the source
\* directory is tested, simple/ is made, the files are listed and grouped.
list_source ==
    /\ pc_mirror = "idle"
    /\ runs < MaxRuns
    /\ runs' = runs + 1
    /\ IF ~source_dir_exists
       THEN /\ stdout' = <<SourceNotFound>>
            /\ pc_mirror' = "done"
            /\ UNCHANGED <<simple_dir_exists, packages>>
       ELSE /\ simple_dir_exists' = TRUE
            /\ stdout' = <<CreatingMirror>>
            /\ \E listing \in Listings(source_dir) :
                  packages' = group_files(listing, <<>>)
            /\ pc_mirror' = "packages"
    /\ pkg_i' = 1
    /\ file_i' = 1
    /\ UNCHANGED <<source_dir_exists, source_dir, mirror, index_html,
                   source_changed, first_run>>

\* The package directory is made, index.html is opened for writing (emptied)
\* and its head is written.
open_index ==
    /\ pc_mirror = "packages"
    /\ pkg_i <= Len(packages)
    /\ LET package_name == packages[pkg_i].name IN
       /\ mirror' = IF package_name \in DOMAIN mirror THEN mirror
                    ELSE Put(mirror, package_name, {})
       /\ index_html' = Put(index_html, package_name,
                            <<Doctype, HeadLine(package_name), BodyLine(package_name)>>)
    /\ file_i' = 1
    /\ pc_mirror' = "files"
    /\ UNCHANGED <<source_dir_exists, source_dir, simple_dir_exists, packages,
                   pkg_i, runs, source_changed, first_run, stdout>>

\* shutil.copy with simple/ as its destination instead of the package directory.
copy_file_to_simple_dir ==
    /\ pc_mirror = "files"
    /\ file_i <= Len(packages[pkg_i].files)
    /\ pc_mirror' = "link"
    /\ UNCHANGED <<source_dir_exists, source_dir, simple_dir_exists, index_html, mirror,
                   packages, pkg_i, file_i, runs, source_changed, first_run,
                   stdout>>

\* shutil.copy of the next file of sorted(files) into the package directory.
copy_file ==
    /\ pc_mirror = "files"
    /\ file_i <= Len(packages[pkg_i].files)
    /\ LET package_name == packages[pkg_i].name
           filename == sorted(packages[pkg_i].files)[file_i]
       IN mirror' = [mirror EXCEPT ![package_name] = @ \cup {filename}]
    /\ pc_mirror' = "link"
    /\ UNCHANGED <<source_dir_exists, source_dir, simple_dir_exists, index_html,
                   packages, pkg_i, file_i, runs, source_changed, first_run,
                   stdout>>

\* The link to the file just copied is written to index.html.
write_link ==
    /\ pc_mirror = "link"
    /\ LET package_name == packages[pkg_i].name
           filename == sorted(packages[pkg_i].files)[file_i]
       IN index_html' = [index_html EXCEPT ![package_name] = Append(@, LinkLine(filename))]
    /\ file_i' = file_i + 1
    /\ pc_mirror' = "files"
    /\ UNCHANGED <<source_dir_exists, source_dir, simple_dir_exists, mirror,
                   packages, pkg_i, runs, source_changed, first_run, stdout>>

\* The end of index.html is written, the file is closed, the next package.
close_index ==
    /\ pc_mirror = "files"
    /\ file_i > Len(packages[pkg_i].files)
    /\ index_html' = [index_html EXCEPT ![packages[pkg_i].name] = Append(@, EndLine)]
    /\ stdout' = Append(stdout, CreatedIndex(packages[pkg_i].name,
                                              Len(packages[pkg_i].files)))
    /\ pkg_i' = pkg_i + 1
    /\ pc_mirror' = "packages"
    /\ UNCHANGED <<source_dir_exists, source_dir, simple_dir_exists, mirror,
                   packages, file_i, runs, source_changed, first_run>>

\* The loop over the packages has ended: the function returns.
finish_mirror ==
    /\ pc_mirror = "packages"
    /\ pkg_i > Len(packages)
    /\ pc_mirror' = "done"
    /\ stdout' = stdout \o <<MirrorCreated, ServeMirror>>
    /\ first_run' = IF first_run = None
                    THEN <<[mirror |-> mirror, index_html |-> index_html]>>
                    ELSE first_run
    /\ UNCHANGED <<source_dir_exists, source_dir, simple_dir_exists, mirror,
                   index_html, packages, pkg_i, file_i, runs, source_changed>>

\* The script is started again.
run_again ==
    /\ pc_mirror = "done"
    /\ runs < MaxRuns
    /\ pc_mirror' = "idle"
    /\ UNCHANGED <<source_dir_exists, source_dir, simple_dir_exists, mirror,
                   index_html, packages, pkg_i, file_i, runs, source_changed,
                   first_run, stdout>>

\* Between two runs a file is added to SOURCE_DIR or removed from it.
change_source ==
    /\ pc_mirror = "done"
    /\ runs < MaxRuns
    /\ source_dir_exists
    /\ \E f \in SourceFiles :
          source_dir' = IF f \in source_dir THEN source_dir \ {f} ELSE source_dir \cup {f}
    /\ source_changed' = TRUE
    /\ UNCHANGED <<source_dir_exists, simple_dir_exists, mirror, index_html,
                   pc_mirror, packages, pkg_i, file_i, runs, first_run, stdout>>

\* Between two runs SOURCE_DIR is removed with its files.
remove_source ==
    /\ pc_mirror = "done"
    /\ runs < MaxRuns
    /\ source_dir_exists
    /\ source_dir_exists' = FALSE
    /\ source_dir' = {}
    /\ source_changed' = TRUE
    /\ UNCHANGED <<simple_dir_exists, mirror, index_html, pc_mirror, packages,
                   pkg_i, file_i, runs, first_run, stdout>>

MirrorNext ==
    \/ list_source /\ UNCHANGED dl_vars
    \/ open_index /\ UNCHANGED dl_vars
    \/ copy_file /\ UNCHANGED dl_vars
    \/ write_link /\ UNCHANGED dl_vars
    \/ close_index /\ UNCHANGED dl_vars
    \/ finish_mirror /\ UNCHANGED dl_vars
    \/ run_again /\ UNCHANGED dl_vars
    \/ change_source /\ UNCHANGED dl_vars
    \/ remove_source /\ UNCHANGED dl_vars

MirrorSpec == MirrorInit /\ [][MirrorNext]_vars

----------------------------------------------------------------------------
\* Properties of the downloader (specification Spec).

\* The tasks have been submitted to the pool.
Dispatched == pc_main \in {"collect", "fatal", "joining", "halted", "success"}

Tag(p) == TARGET_PLATFORMS[p].platform_tag

\* A file of `files` starts, case-insensitively, with the requirement's
\* normalized package name and contains the platform tag.
MatchingFile(files, req, platform_tag) ==
    \E f \in files :
        /\ startswith(lower(f), replace(lower(split_operators_head(req)), "_", "-"))
        /\ contains(lower(f), platform_tag)

\* A file of `files` starts, case-insensitively, with the requirement's
\* normalized package name.
PrefixFile(files, req) ==
    \E f \in files :
        startswith(lower(f), replace(lower(split_operators_head(req)), "_", "-"))

RECURSIVE SumUpTo(_, _)
SumUpTo(f, n) == IF n = 0 THEN 0 ELSE f[n] + SumUpTo(f, n - 1)
TotalInvocations == SumUpTo([i \in Tasks |-> SumUpTo(invocations[i], P)], N)

FatalSeen == \E i \in Tasks : \E p \in Platforms : outcome[i][p] = "fatal"

\* Task i takes the step that deals with its current platform's check.
ChecksPair(i) == task[i].status = "checking" /\ task'[i] # task[i]

\* C1: once a download command has failed with an error without
\* the signature, no download command is invoked any more.
C1_FailFast ==
    [][FatalSeen => invocations' = invocations]_vars

C3_ExactlyOncePerPair ==
    (pc_main = "success" /\ initial_files = {}) => TotalInvocations = N * P

\* C3 (amended): from an empty directory the download command is invoked at
\* most once per (requirement, platform) pair, so at most N*P times; when the
\* run ends without fatal failure, a pair without invocation is one that was
\* skipped because a file written by a download of this run matches it.
C3_AtMostOncePerPair ==
    (Dispatched /\ initial_files = {})
        => /\ \A i \in Tasks : \A p \in Platforms : invocations[i][p] <= 1
           /\ TotalInvocations <= N * P
           /\ pc_main = "success" =>
                 \A i \in Tasks : \A p \in Platforms :
                    \/ invocations[i][p] = 1
                    \/ /\ invocations[i][p] = 0
                       /\ outcome[i][p] = "skipped"
                       /\ MatchingFile(output_directory, requirements[i], Tag(p))

\* C3: two requirements ran to the end from an empty directory with fewer
\* than N*P invocations.
C3_Witness ==
    /\ pc_main = "success"
    /\ initial_files = {}
    /\ N = 2
    /\ TotalInvocations < N * P
    /\ TotalInvocations > 0

\* C4: a task that reaches a pair invokes the download command if and only if
\* the directory holds, at that moment, no file that starts with the normalized
\* package name and contains the platform tag; otherwise it skips the pair and
\* moves to the next platform.  Nothing else invokes the command.
C4_SkipDecision ==
    [][\A i \in Tasks :
          /\ ChecksPair(i) =>
                LET p == task[i].plat IN
                IF MatchingFile(output_directory, requirements[i], Tag(p))
                THEN /\ invocations'[i] = invocations[i]
                     /\ outcome'[i][p] = "skipped"
                     /\ task'[i].plat = p + 1
                     /\ task'[i].status = IF p = P THEN "done" ELSE "checking"
                ELSE /\ invocations'[i][p] = invocations[i][p] + 1
                     /\ outcome'[i][p] = "invoked"
                     /\ task'[i].plat = p
                     /\ task'[i].status = "downloading"
          /\ invocations'[i] # invocations[i] => ChecksPair(i)]_vars

\* C4: one task downloaded on one platform and skipped a later one.
C4_Witness ==
    \E i \in Tasks : \E p, q \in Platforms :
        /\ p < q
        /\ outcome[i][p] = "ok"
        /\ outcome[i][q] = "skipped"

\* C5: a failure whose text contains the signature makes the task go on to the
\* next platform (or return success after the last), leaves the main thread
\* and every other task as they are; a task returns failure only after a
\* failure whose text lacks the signature.
C5_ToleratedFailure ==
    /\ [][\A i \in Tasks : \A p \in Platforms :
            (/\ error_output[i][p] = None
             /\ error_output'[i][p] # None
             /\ contains(error_output'[i][p], Signature))
            => /\ outcome'[i][p] = "warned"
               /\ task'[i].plat = p + 1
               /\ task'[i].status = IF p = P THEN "done" ELSE "checking"
               /\ p = P => task'[i].result = <<TRUE, None>>
               /\ pc_main' = pc_main
               /\ next_result' = next_result
               /\ \A j \in Tasks \ {i} : task'[j] = task[j]]_vars
    /\ [](\A i \in Tasks :
            (task[i].status = "done" /\ ~task[i].result[1])
            => \E p \in Platforms :
                  /\ outcome[i][p] = "fatal"
                  /\ ~contains(error_output[i][p], Signature))

\* C5: a task was warned on its first platform, downloaded on its second and
\* returned success, and the batch ended in success.
C5_Witness ==
    /\ pc_main = "success"
    /\ \E i \in Tasks :
          /\ outcome[i][1] = "warned"
          /\ contains(error_output[i][1], Signature)
          /\ outcome[i][2] = "ok"
          /\ task[i].result = <<TRUE, None>>

\* Running tasks are not killed, and the function returns after they ended.
RunningTasksComplete ==
    /\ \A i \in Tasks :
          Running(i) => task'[i].status \in {"checking", "downloading", "done"}
    /\ pc_main' = "halted" => \A i \in Tasks : task'[i].status \in {"done", "cancelled"}

\* C6: once the main thread has seen the fatal result, no task
\* that has not started starts; running tasks run to their end before the
\* function returns.
C6_NoStartAfterFatalSeen ==
    [][/\ pc_main \in {"fatal", "joining", "halted"} =>
            \A i \in Tasks :
               task[i].status = "queued" => task'[i].status \in {"queued", "cancelled"}
       /\ RunningTasksComplete]_vars

\* What holds instead: once executor.shutdown(cancel_futures=True) has run,
\* every task that had not started is cancelled and never starts; running
\* tasks run to their end before the function returns.
NoStartAfterShutdown ==
    [][/\ pc_main \in {"joining", "halted"} =>
            \A i \in Tasks :
               /\ task[i].status # "queued"
               /\ task[i].status = "cancelled" => task'[i].status = "cancelled"
       /\ (pc_main = "fatal" /\ pc_main' = "joining") =>
            \A i \in Tasks :
               task[i].status = "queued" => task'[i].status = "cancelled"
       /\ RunningTasksComplete]_vars

\* The function has returned after a fatal result with a task cancelled
\* before it did anything.
CancelledBeforeStart ==
    /\ pc_main = "halted"
    /\ \E i \in Tasks :
          /\ task[i].status = "cancelled"
          /\ task[i].plat = 1
          /\ \A p \in Platforms : outcome[i][p] = "none" /\ invocations[i][p] = 0

\* C7 (as claimed): every pair is skipped or not according to the listing
\* taken before the tasks were dispatched.
C7_SnapshotDecides ==
    \A i \in Tasks : \A p \in Platforms :
        outcome[i][p] # "none" =>
            (outcome[i][p] = "skipped"
                <=> MatchingFile(initial_files, requirements[i], Tag(p)))

\* C7 (amended): the listing is read anew for every pair, so a pair is skipped
\* exactly when the directory as it is then, with the files the downloads of
\* this run have written so far, holds a matching file; files are only added.
C7_FreshListingDecides ==
    /\ [][\A i \in Tasks :
            ChecksPair(i) =>
               (outcome'[i][task[i].plat] = "skipped"
                   <=> \/ MatchingFile(initial_files, requirements[i], Tag(task[i].plat))
                       \/ MatchingFile(output_directory \ initial_files,
                                       requirements[i], Tag(task[i].plat)))]_vars
    /\ [][output_directory \subseteq output_directory']_vars

\* C7: a pair was skipped that no file of the initial listing matches.
C7_Witness ==
    \E i \in Tasks : \E p \in Platforms :
        /\ outcome[i][p] = "skipped"
        /\ ~MatchingFile(initial_files, requirements[i], Tag(p))

\* Two tasks for the same package.
SamePackage(i, j) ==
    i # j /\ replace(lower(split_operators_head(requirements[i])), "_", "-")
             = replace(lower(split_operators_head(requirements[j])), "_", "-")

\* C8: nothing guards a pair: while one task's download for a package and
\* platform is in flight, another task for the same package that reaches the
\* same platform and finds no matching file can invoke the command as well.
C8_UnguardedPair ==
    \A i, j \in Tasks : \A p \in Platforms :
        (/\ task[j].status = "downloading" /\ task[j].plat = p
         /\ task[i].status = "checking" /\ task[i].plat = p
         /\ SamePackage(i, j)
         /\ ~MatchingFile(output_directory, requirements[i], Tag(p)))
        => ENABLED (check_platform(i) /\ invocations'[i][p] = 1)

\* C8: two tasks have both invoked the command for the same package and
\* platform, and both commands are in flight.
C8_Witness ==
    \E i, j \in Tasks : \E p \in Platforms :
        /\ SamePackage(i, j)
        /\ task[i].status = "downloading" /\ task[i].plat = p
        /\ task[j].status = "downloading" /\ task[j].plat = p
        /\ invocations[i][p] = 1 /\ invocations[j][p] = 1

\* The pip install of the build dependencies has failed, or
\* download_packages_multithreaded has found no requirements file.
SetupFailed ==
    \/ build_dependencies \in {"CalledProcessError", "FileNotFoundError"}
    \/ pc_main \notin {"install", "download"} /\ ~requirements_txt.exists

\* C12: after a failed install of the build dependencies (command error or
\* interpreter not found), or with the requirements file missing, the run has
\* ended: no task was submitted to the pool and no download command was or
\* will be invoked.
C12_SetupFailureAborts ==
    /\ [](SetupFailed
            => /\ pc_main = "aborted"
               /\ task = <<>>
               /\ requirements = <<>>
               /\ invocations = <<>>)
    /\ [][SetupFailed => UNCHANGED dl_vars]_vars

\* C12: the run has ended after the install failed because the interpreter
\* was not found.
C12_Witness ==
    /\ pc_main = "aborted"
    /\ build_dependencies = "FileNotFoundError"
    /\ requirements_txt.exists
    /\ Len(requirements_txt.lines) = 2

\* The run has ended because the requirements file is missing, after the
\* build dependencies were installed.
AbortedWithoutRequirements ==
    /\ pc_main = "aborted"
    /\ build_dependencies = "ok"
    /\ ~requirements_txt.exists
    /\ output_directory_exists

\* The download commands of task i that were started and have not returned.
InFlight(i) == {p \in Platforms : outcome[i][p] = "invoked"}

\* C13: at most max_workers (at most MAX_WORKERS) tasks are executing; there
\* is one task per requirement, in the order of the list; a task has at most
\* one download command in flight, for the platform it is at; so at most
\* max_workers download commands run at the same time.
C13_BoundedParallelism ==
    /\ max_workers <= MAX_WORKERS
    /\ Dispatched =>
          /\ Cardinality({i \in Tasks : Running(i)}) <= max_workers
          /\ Len(task) = Len(requirements)
          /\ requirements = SelectLines(requirements_txt.lines)
          /\ \A i \in Tasks :
                /\ Cardinality(InFlight(i)) <= 1
                /\ InFlight(i) # {} <=> task[i].status = "downloading"
                /\ InFlight(i) \subseteq {task[i].plat}
          /\ Cardinality({i \in Tasks : InFlight(i) # {}}) <= max_workers

\* C13: the pool of one worker is full: the first task's download command is
\* in flight and the second task waits in the queue.
C13_Witness ==
    /\ max_workers = 1
    /\ N = 2
    /\ InFlight(1) # {}
    /\ task[2].status = "queued"

\* C15: a task deals with its platforms in the configured order, one after
\* the other; after a failure without the signature on a platform it has
\* returned failure with the requirement, that platform's name and the error
\* text, and it never checks or downloads a later platform.
C15_FatalEndsTask ==
    /\ [](Dispatched =>
            \A i \in Tasks : \A p \in Platforms :
               /\ outcome[i][p] # "none" =>
                     /\ p <= task[i].plat
                     /\ \A q \in 1..(p - 1) : outcome[i][q] \in {"skipped", "ok", "warned"}
               /\ outcome[i][p] = "fatal" =>
                     /\ task[i].status = "done"
                     /\ task[i].result = <<FALSE, <<requirements[i],
                                                    TARGET_PLATFORMS_ALL[p].name,
                                                    error_output[i][p]>>>>
                     /\ ~contains(error_output[i][p], Signature)
                     /\ \A q \in (p + 1)..P :
                           outcome[i][q] = "none" /\ invocations[i][q] = 0)
    /\ [][\A i \in Tasks :
            (\E p \in Platforms : outcome[i][p] = "fatal")
               => /\ task'[i] = task[i]
                  /\ outcome'[i] = outcome[i]
                  /\ invocations'[i] = invocations[i]]_vars

\* C15: the run has halted; a task failed fatally on its first platform and
\* its later platforms were never dealt with.
C15_Witness ==
    /\ pc_main = "halted"
    /\ P >= 2
    /\ \E i \in Tasks :
          /\ outcome[i][1] = "fatal"
          /\ task[i].result[1] = FALSE
          /\ \A q \in 2..P : outcome[i][q] = "none"

\* The main thread has received a fatal result: requirement next_result is
\* the one it reports.
Halting == pc_main \in {"fatal", "joining", "halted"}

\* C16: when the batch halts, the requirement reported, k, is one whose task
\* returned failure; every requirement submitted before k has finished all
\* its platforms without fatal failure; k is the lowest-indexed of the tasks
\* that failed, whenever they failed.  No report is made while the task whose
\* result is awaited runs, whatever the later tasks have returned.
C16_SubmissionOrder ==
    /\ [](Halting =>
            LET k == next_result IN
            /\ k \in Tasks
            /\ task[k].status = "done"
            /\ task[k].result[1] = FALSE
            /\ task[k].result[2][1] = requirements[k]
            /\ \A j \in 1..(k - 1) :
                  /\ task[j].status = "done"
                  /\ task[j].result = <<TRUE, None>>
                  /\ \A p \in Platforms : outcome[j][p] \in {"skipped", "ok", "warned"}
            /\ \A m \in 1..Len(failures) : k <= failures[m])
    /\ [][(pc_main = "collect" /\ next_result \in Tasks
                /\ task[next_result].status # "done")
            => pc_main' = "collect" /\ next_result' = next_result]_vars

\* C16: the batch has halted reporting the first requirement, whose task
\* failed after the second requirement's task had failed.
C16_Witness ==
    /\ pc_main = "halted"
    /\ next_result = 1
    /\ failures = <<2, 1>>

\* C17: in the final state of success no task has returned failure, every
\* task has returned success, and every (requirement, platform) pair was
\* dealt with in exactly one way: skipped without invocation, or invoked once
\* and downloaded, or invoked once and warned about with the signature.  A run
\* that has ended in success stays there and a run that halts on a fatal
\* result never reaches success.
C17_CompletionImpliesCoverage ==
    /\ [](pc_main = "success" =>
            /\ failures = <<>>
            /\ requirements = SelectLines(requirements_txt.lines)
            /\ \A i \in Tasks :
                  /\ task[i].status = "done"
                  /\ task[i].result = <<TRUE, None>>
                  /\ \A p \in Platforms :
                        \/ outcome[i][p] = "skipped" /\ invocations[i][p] = 0
                                                     /\ error_output[i][p] = None
                        \/ outcome[i][p] = "ok" /\ invocations[i][p] = 1
                                                /\ error_output[i][p] = None
                        \/ outcome[i][p] = "warned" /\ invocations[i][p] = 1
                              /\ contains(error_output[i][p], Signature))
    /\ [][pc_main = "success" => UNCHANGED dl_vars]_vars
    /\ [][Halting => pc_main' \in {"fatal", "joining", "halted"}]_vars

\* C17: a run of two requirements has ended in success with a pair skipped,
\* a pair downloaded and a pair warned about.
C17_Witness ==
    /\ pc_main = "success"
    /\ N = 2
    /\ \E i, j, k \in Tasks : \E p, q, r \in Platforms :
          /\ outcome[i][p] = "skipped"
          /\ outcome[j][q] = "ok"
          /\ outcome[k][r] = "warned"

\* download_packages_multithreaded has returned after the success message or
\* after the fatal report, and no task runs or waits to run.
Terminated ==
    /\ pc_main \in {"success", "halted"}
    /\ \A i \in Tasks : task[i].status \in {"done", "cancelled"}

\* C18: called with a requirements file to read, the function eventually
\* returns, after the success message or after the fatal report;
\* when it has returned no task runs or is left to run, and nothing changes
\* any more; no task ever invokes the download command twice for the same
\* (requirement, platform) pair.
C18_Termination ==
    /\ (pc_main = "download" /\ requirements_txt.exists) ~> Terminated
    /\ [](pc_main \in {"success", "halted"} => Terminated)
    /\ [][Terminated => UNCHANGED dl_vars]_vars
    /\ [](Dispatched => \A i \in Tasks : \A p \in Platforms : invocations[i][p] <= 1)

\* C18: the function has returned after a fatal report with one task
\* cancelled before it started and the other run to its end.
C18_Witness ==
    /\ Terminated
    /\ pc_main = "halted"
    /\ N = 2
    /\ task[1].status = "done"
    /\ task[2].status = "cancelled"
    /\ invocations[1][1] = 1

----------------------------------------------------------------------------
\* Properties of the mirror builder (specification MirrorSpec).

NamePkgDashA == <<"p","k","g","-","a">>
NamePkga == <<"p","k","g","a">>

\* The index of a package with these links, in this order.
IndexOf(package_name, links) ==
    <<Doctype, HeadLine(package_name), BodyLine(package_name)>>
        \o [k \in 1..Len(links) |-> LinkLine(links[k])]
        \o <<EndLine>>

\* A run has ended on a source directory that holds, and held from the start,
\* pkgA-1.0-py3-none-any.whl and pkg_a-1.0.tar.gz and nothing else.
ExampleMirrored ==
    /\ pc_mirror = "done"
    /\ runs >= 1
    /\ ~source_changed
    /\ source_dir = {SrcPkgAWheel, SrcPkgUaSdist}

\* C9 (as claimed): the two files of the example get the one package name
\* pkg-a, one subdirectory simple/pkg-a is made and its index links both.
C9_OnePackageDirectory ==
    ExampleMirrored
        => /\ DOMAIN mirror = {NamePkgDashA}
           /\ DOMAIN index_html = {NamePkgDashA}
           /\ mirror[NamePkgDashA] = {SrcPkgAWheel, SrcPkgUaSdist}
           /\ \E k, m \in 1..Len(index_html[NamePkgDashA]) :
                 /\ index_html[NamePkgDashA][k] = LinkLine(SrcPkgAWheel)
                 /\ index_html[NamePkgDashA][m] = LinkLine(SrcPkgUaSdist)

\* C9 (amended): the two files of the example get different package names,
\* pkga and pkg-a; the subdirectories simple/pkga and simple/pkg-a are made,
\* each holds its one file and each index links its one file.
C9_TwoPackageDirectories ==
    ExampleMirrored
        => /\ DOMAIN mirror = {NamePkga, NamePkgDashA}
           /\ DOMAIN index_html = {NamePkga, NamePkgDashA}
           /\ mirror[NamePkga] = {SrcPkgAWheel}
           /\ mirror[NamePkgDashA] = {SrcPkgUaSdist}
           /\ index_html[NamePkga] = IndexOf(NamePkga, <<SrcPkgAWheel>>)
           /\ index_html[NamePkgDashA] = IndexOf(NamePkgDashA, <<SrcPkgUaSdist>>)

\* C9: the first run on the example directory has ended.
C9_Witness == ExampleMirrored /\ runs = 1 /\ simple_dir_exists

\* C10: after a second (or later) run on a source directory that did not
\* change, every index.html and every package directory is as the first run
\* left it, whatever the orders the directory was listed in.
C10_Idempotent ==
    (pc_mirror = "done" /\ runs >= 2 /\ ~source_changed /\ first_run # None)
        => /\ index_html = first_run[1].index_html
           /\ mirror = first_run[1].mirror

\* C10: a second run has ended on an unchanged directory with a package of
\* two files, whose index holds two links.
C10_Witness ==
    /\ pc_mirror = "done"
    /\ runs = 2
    /\ ~source_changed
    /\ first_run # None
    /\ \E n \in DOMAIN index_html :
          /\ Cardinality(mirror[n]) = 2
          /\ Len(index_html[n]) = 6

\* C11: a run that finds no source directory prints the error and returns;
\* it leaves the mirror root, every package directory, every index.html and
\* the source as they were.  When the source directory never existed, no
\* mirror root, package directory or index exists.
C11_MissingSourceDirectory ==
    /\ [][(pc_mirror = "idle" /\ pc_mirror' # "idle" /\ ~source_dir_exists)
            => /\ stdout' = <<SourceNotFound>>
               /\ pc_mirror' = "done"
               /\ simple_dir_exists' = simple_dir_exists
               /\ mirror' = mirror
               /\ index_html' = index_html
               /\ source_dir_exists' = source_dir_exists
               /\ source_dir' = source_dir]_vars
    /\ []((~source_dir_exists /\ ~source_changed)
            => (~simple_dir_exists /\ mirror = <<>> /\ index_html = <<>>))

\* C11: a run has returned after printing that the source directory was not
\* found, with no mirror root made.
C11_Witness ==
    /\ pc_mirror = "done"
    /\ runs >= 1
    /\ ~source_dir_exists
    /\ stdout = <<SourceNotFound>>
    /\ ~simple_dir_exists

\* The first run on a fresh mirror root has ended and the source directory is
\* as that run found it.
FirstRunDone ==
    /\ pc_mirror = "done"
    /\ runs = 1
    /\ source_dir_exists
    /\ ~source_changed

\* The file's name ends in .whl or .tar.gz.
EndsInArchiveSuffix(f) ==
    \/ Len(f) >= 4 /\ SubSeq(f, Len(f) - 3, Len(f)) = <<".","w","h","l">>
    \/ Len(f) >= 7 /\ SubSeq(f, Len(f) - 6, Len(f)) = <<".","t","a","r",".","g","z">>

\* The file's prefix before the first hyphen that a digit follows, lowercased,
\* underscores replaced by hyphens.
PackageOf(f) == replace(lower(split_version_head(f)), "_", "-")

\* The files of the set in sorted order.
SortedSeqOf(files) ==
    CHOOSE s \in Listings(files) :
        \A k \in 1..(Len(s) - 1) : str_le(s[k], s[k + 1])

\* How many links to the file the index holds.
LinkCount(index, f) == Cardinality({k \in 1..Len(index) : index[k] = LinkLine(f)})

\* C14: after a run on a fresh mirror root, every source file ending in .whl
\* or .tar.gz is linked once, in the index of its package and in no other, and
\* is copied to that package's directory; every index lists exactly the files
\* of its package in sorted order; no other file is linked or copied.
C14_MirrorPartition ==
    FirstRunDone =>
        LET archives == {f \in source_dir : EndsInArchiveSuffix(f)}
            names == {PackageOf(f) : f \in archives}
        IN /\ DOMAIN index_html = names
           /\ DOMAIN mirror = names
           /\ \A f \in archives : \A n \in names :
                 LinkCount(index_html[n], f) = IF n = PackageOf(f) THEN 1 ELSE 0
           /\ \A n \in names :
                 LET files == {f \in archives : PackageOf(f) = n}
                 IN /\ index_html[n] = IndexOf(n, SortedSeqOf(files))
                    /\ mirror[n] = files
           /\ \A f \in source_dir \ archives : \A n \in names :
                 /\ LinkCount(index_html[n], f) = 0
                 /\ f \notin mirror[n]

\* C14: the first run has ended on a source directory with a package of two
\* files, a package of one file and a file that is no archive.
C14_Witness ==
    /\ FirstRunDone
    /\ source_dir = SourceFiles
    /\ Cardinality(DOMAIN index_html) = 2
    /\ \E n \in DOMAIN mirror : Cardinality(mirror[n]) = 2

\* The files the index links.
LinkedFiles(index) ==
    {f \in SourceFiles : \E k \in 1..Len(index) : index[k] = LinkLine(f)}

\* Every link of every index.html names a file of that package's directory.
NoDanglingLink ==
    \A n \in DOMAIN index_html :
        /\ n \in DOMAIN mirror
        /\ LinkedFiles(index_html[n]) \subseteq mirror[n]

\* No file is ever removed from a package directory, no package directory is
\* ever removed.
NeverDeletes ==
    \A n \in DOMAIN mirror : n \in DOMAIN mirror' /\ mirror[n] \subseteq mirror'[n]

\* A run has ended that found the source directory as it is now.
RunSawSource ==
    /\ pc_mirror = "done"
    /\ runs >= 1
    /\ source_dir_exists
    /\ UNION {{packages[k].files[m] : m \in 1..Len(packages[k].files)} :
                 k \in 1..Len(packages)}
          = {f \in source_dir : EndsInArchiveSuffix(f)}

\* C19 (as claimed): no index ever links a file that its package directory
\* lacks, no copied file is ever deleted, and after a run no index links a
\* file that is not in the source directory any more.
C19_RemovedFileUnlinked ==
    /\ []NoDanglingLink
    /\ [][NeverDeletes]_vars
    /\ [](RunSawSource =>
            \A n \in DOMAIN index_html : LinkedFiles(index_html[n]) \subseteq source_dir)

\* C19 (amended): no index ever links a file that its package directory lacks
\* and no copied file is ever deleted.  An index is written only in a run
\* that finds an archive of its package in the source: after such a run it
\* links exactly the archives of the package the source holds, so a removed
\* file is no longer linked; the index of a package with no archive left in
\* the source is not rewritten and keeps its links.
C19_NoDanglingLinks ==
    /\ []NoDanglingLink
    /\ [][NeverDeletes]_vars
    /\ [](RunSawSource =>
            \A n \in DOMAIN index_html :
               LET files == {f \in source_dir : EndsInArchiveSuffix(f) /\ PackageOf(f) = n}
               IN files # {} => index_html[n] = IndexOf(n, SortedSeqOf(files)))
    /\ [][\A n \in DOMAIN index_html :
            index_html'[n] # index_html[n]
               => /\ pkg_i <= Len(packages)
                  /\ packages[pkg_i].name = n
                  /\ \E f \in source_dir : EndsInArchiveSuffix(f) /\ PackageOf(f) = n]_vars

\* C19: a second run has ended after a file was removed from the source; the
\* file is still in its package directory and the index, rewritten for the
\* file that is left, no longer links it.
C19_Witness ==
    /\ RunSawSource
    /\ runs >= 2
    /\ \E n \in DOMAIN index_html : \E f \in mirror[n] :
          /\ f \notin source_dir
          /\ f \notin LinkedFiles(index_html[n])
          /\ LinkedFiles(index_html[n]) # {}

\* A second run has ended after the only file of a package was removed from
\* the source; the index of the package still links it.
RemovedFileStillLinked ==
    /\ RunSawSource
    /\ runs >= 2
    /\ \E n \in DOMAIN index_html : \E f \in LinkedFiles(index_html[n]) :
          f \notin source_dir /\ f \in mirror[n]

====
